---- MODULE Spec2Model ----
(***************************************************************************)
(* lithophoto (src/main.rs): an image is turned into a height field, the   *)
(* height field into a triangle mesh (front relief, back cap, four walls), *)
(* and the mesh into a binary STL byte stream.                             *)
(*                                                                         *)
(* f32 values are modelled as exact rationals <<n, d>> in lowest terms     *)
(* with d > 0; the rounding of single-precision arithmetic is not          *)
(* modelled (0.299, 0.587 and 0.114 are the decimal constants of the       *)
(* source).  f32::to_le_bytes is modelled as the IEEE-754 binary32         *)
(* encoding (round to nearest, ties to even) of the rational.              *)
(***************************************************************************)
EXTENDS Integers, Sequences, FiniteSets, TLC

VARIABLES pc, args, image, thickness, mesh, x, y, fileCreated, sinkKind, output_file

vars == <<pc, args, image, thickness, mesh, x, y, fileCreated, sinkKind, output_file>>

(* ---------------------------------------------------------------- bounds *)

\* Widths and heights of the decoded image range over 1..MaxDim.
MaxDim == 3

(* ------------------------------------------------------- f32 arithmetic *)

Abs(a) == IF a < 0 THEN -a ELSE a

Min(a, b) == IF a < b THEN a ELSE b

RECURSIVE GCD(_, _)
GCD(a, b) == IF b = 0 THEN a ELSE GCD(b, a % b)

\* The rational n/d in lowest terms, with a positive denominator.
Rat(n, d) ==
    LET s == IF d < 0 THEN -1 ELSE 1
        g == GCD(Abs(n), Abs(d))
    IN  IF n = 0 THEN <<0, 1>> ELSE <<(s * n) \div g, (s * d) \div g>>

\* `val as f32` of an integer.
F(n) == <<n, 1>>

RAdd(a, b) ==
    LET g == GCD(a[2], b[2])
    IN  Rat(a[1] * (b[2] \div g) + b[1] * (a[2] \div g), (a[2] \div g) * b[2])

RNeg(a) == <<-a[1], a[2]>>

RSub(a, b) == RAdd(a, RNeg(b))

RMul(a, b) ==
    LET g1 == GCD(Abs(a[1]), b[2])
        g2 == GCD(Abs(b[1]), a[2])
    IN  IF a[1] = 0 \/ b[1] = 0 THEN <<0, 1>>
        ELSE Rat((a[1] \div g1) * (b[1] \div g2), (a[2] \div g2) * (b[2] \div g1))

\* Division by a non-zero value.
RDiv(a, b) == RMul(a, Rat(b[2], b[1]))

Zero == F(0)

One == F(1)

(* ------------------------------------------------------------ data model *)

Vec3(vx, vy, vz) == [x |-> vx, y |-> vy, z |-> vz]

Triangle(n, v0, v1, v2) == [normal |-> n, v0 |-> v0, v1 |-> v1, v2 |-> v2]

(* ---------------------------------------------------------- byte encoding *)

\* u32::to_le_bytes
U32LeBytes(n) ==
    <<n % 256, (n \div 256) % 256, (n \div 65536) % 256, (n \div 16777216) % 256>>

\* p/q scaled by a power of two into [1, 2): <<p, q, e>> with value = (p/q) * 2^e.
RECURSIVE Normalise(_, _, _)
Normalise(p, q, e) ==
    IF p >= 2 * q THEN Normalise(p, 2 * q, e + 1)
    ELSE IF p < q THEN Normalise(2 * p, q, e - 1)
    ELSE <<p, q, e>>

\* i more fraction bits of r/q (r < q) shifted into m: <<mantissa, remainder>>.
RECURSIVE FractionBits(_, _, _, _)
FractionBits(r, q, i, m) ==
    IF i = 0 THEN <<m, r>>
    ELSE IF 2 * r >= q THEN FractionBits(2 * r - q, q, i - 1, 2 * m + 1)
    ELSE FractionBits(2 * r, q, i - 1, 2 * m)

\* f32::to_le_bytes: sign bit, 8 exponent bits biased by 127, 23 fraction bits,
\* rounded to nearest with ties to even, least significant byte first.
F32LeBytes(a) ==
    IF a[1] = 0 THEN <<0, 0, 0, 0>>
    ELSE
      LET sgn  == IF a[1] < 0 THEN 1 ELSE 0
          nrm  == Normalise(Abs(a[1]), a[2], 0)
          fr   == FractionBits(nrm[1] - nrm[2], nrm[2], 23, 0)
          up   == \/ 2 * fr[2] > nrm[2]
                  \/ (2 * fr[2] = nrm[2] /\ fr[1] % 2 = 1)
          m1   == IF up THEN fr[1] + 1 ELSE fr[1]
          man  == IF m1 = 8388608 THEN 0 ELSE m1
          ex   == (IF m1 = 8388608 THEN nrm[3] + 1 ELSE nrm[3]) + 127
      IN  <<man % 256, (man \div 256) % 256,
            (ex % 2) * 128 + (man \div 65536), sgn * 128 + (ex \div 2)>>

\* Vec3::to_le_bytes
Vec3LeBytes(v) == F32LeBytes(v.x) \o F32LeBytes(v.y) \o F32LeBytes(v.z)

(* --------------------------------------------------- height field sampler *)

\* get_pixel_brightness(r, g, b)
GetPixelBrightness(r, g, b) ==
    RDiv(RAdd(RAdd(RMul(F(r), Rat(299, 1000)), RMul(F(g), Rat(587, 1000))),
              RMul(F(b), Rat(114, 1000))),
         F(255))

\* let (width, height) = img.dimensions();
Width == image.w

Height == image.h

\* Variant: the relief depth is not scaled by the thickness.
BrightnessToMm_Unscaled(brightness) ==
    RSub(args.mesh_thickness, RMul(brightness, args.contrast))

\* brightness_to_mm
BrightnessToMm(brightness) ==
    RSub(args.mesh_thickness,
         RMul(RMul(brightness, args.contrast), args.mesh_thickness))

\* pixel_coord_to_mm
PixelCoordToMm(val) == RDiv(RMul(F(val), args.mesh_width), F(Width))

\* Variant: the raster row is read without the vertical flip.
SourcePixel_NoFlip(col, row) == image.px[<<col, row>>]

\* img.get_pixel(x, height - y - 1)
SourcePixel(col, row) == image.px[<<col, Height - row - 1>>]

\* get_thickness_vec3
GetThicknessVec3(col, row) ==
    LET pixel == SourcePixel(col, row)
        brightness == GetPixelBrightness(pixel[1], pixel[2], pixel[3])
        mm == BrightnessToMm(brightness)
    IN  Vec3(PixelCoordToMm(col), PixelCoordToMm(row), mm)

\* The field as the source builds it: one Vec per row, rows and columns from 0.
ThicknessField ==
    [row \in 1..Height |-> [col \in 1..Width |-> GetThicknessVec3(col - 1, row - 1)]]

\* thickness[row][col] with the source's 0-based indices.
Th(row, col) == thickness[row + 1][col + 1]

(* ----------------------------------------------------- solid mesh builder *)

\* The closure `normal`: the cross product (v1 - v0) x (v2 - v0).
Normal(v0, v1, v2) ==
    Vec3(RSub(RMul(RSub(v1.y, v0.y), RSub(v2.z, v0.z)),
              RMul(RSub(v1.z, v0.z), RSub(v2.y, v0.y))),
         RSub(RMul(RSub(v1.z, v0.z), RSub(v2.x, v0.x)),
              RMul(RSub(v1.x, v0.x), RSub(v2.z, v0.z))),
         RSub(RMul(RSub(v1.x, v0.x), RSub(v2.y, v0.y)),
              RMul(RSub(v1.y, v0.y), RSub(v2.x, v0.x))))

\* Variant: the two triangles of a quad are pushed in the other order.
AddQuadWithNormal_Swapped(m, v0, v1, v2, v3, n) ==
    m \o <<Triangle(n, v0, v2, v3), Triangle(n, v0, v1, v2)>>

AddQuadWithNormal(m, v0, v1, v2, v3, n) ==
    m \o <<Triangle(n, v0, v1, v2), Triangle(n, v0, v2, v3)>>

\* Variant: only the first triangle of a front quad is pushed.
AddQuad_OneTriangle(m, v0, v1, v2, v3) ==
    m \o <<Triangle(Normal(v0, v1, v2), v0, v1, v2)>>

AddQuad(m, v0, v1, v2, v3) ==
    AddQuadWithNormal(m, v0, v1, v2, v3, Normal(v0, v1, v2))

\* The projection of a field point onto the back plane.
OnBack(v) == Vec3(v.x, v.y, Zero)

\* One cell of the front face.
FrontQuad(m, col, row) ==
    AddQuad(m, Th(row, col), Th(row, col + 1), Th(row + 1, col + 1), Th(row + 1, col))

\* The back face.
BackQuad(m) ==
    AddQuadWithNormal(m,
        Vec3(Zero, Zero, Zero),
        Vec3(PixelCoordToMm(Width - 1), Zero, Zero),
        Vec3(PixelCoordToMm(Width - 1), PixelCoordToMm(Height - 1), Zero),
        Vec3(Zero, PixelCoordToMm(Height - 1), Zero),
        Vec3(Zero, Zero, F(-1)))

\* One iteration of the loop commented "Create left and right faces".
LeftRightQuads(m, col) ==
    LET a0 == Th(0, col)
        a1 == Th(0, col + 1)
        a2 == OnBack(a0)
        a3 == OnBack(a1)
        b0 == Th(Height - 1, col + 1)
        b1 == Th(Height - 1, col)
        b2 == OnBack(b0)
        b3 == OnBack(b1)
    IN  AddQuadWithNormal(
            AddQuadWithNormal(m, a0, a1, a3, a2, Vec3(F(-1), Zero, Zero)),
            b0, b1, b3, b2, Vec3(One, Zero, Zero))

\* One iteration of the loop commented "Create top and bottom faces".
TopBottomQuads(m, row) ==
    LET a0 == Th(row, 0)
        a1 == Th(row + 1, 0)
        a2 == OnBack(a0)
        a3 == OnBack(a1)
        b0 == Th(row, Width - 1)
        b1 == Th(row + 1, Width - 1)
        b2 == OnBack(b0)
        b3 == OnBack(b1)
    IN  AddQuadWithNormal(
            AddQuadWithNormal(m, a0, a1, a3, a2, Vec3(Zero, F(-1), Zero)),
            b0, b1, b3, b2, Vec3(Zero, One, Zero))

(* ----------------------------------------------------- binary mesh encoder *)

\* A byte sink (std::io::Write): a call of write either fails, when it is call
\* number errAt, or accepts the first min(len, cap) bytes offered and reports
\* how many it took.
SinkWrite(kind, st, buf) ==
    IF ~st.ok THEN st
    ELSE IF kind.errAt = st.calls + 1
         THEN [st EXCEPT !.ok = FALSE, !.calls = @ + 1]
    ELSE [bytes |-> st.bytes \o SubSeq(buf, 1, Min(Len(buf), kind.cap)),
          calls |-> st.calls + 1,
          ok    |-> TRUE]

\* The number of write calls generate_stl_mesh makes for mesh m.
NumWriteCalls(m) == 80 + 1 + 5 * Len(m)

\* The buffer generate_stl_mesh offers in its i-th call of w.write.
WriteBuf(m, i) ==
    IF i <= 80 THEN <<0>>
    ELSE IF i = 81 THEN U32LeBytes(Len(m))
    ELSE LET t == m[((i - 82) \div 5) + 1]
             j == (i - 82) % 5
         IN  CASE j = 0 -> Vec3LeBytes(t.normal)
               [] j = 1 -> Vec3LeBytes(t.v0)
               [] j = 2 -> Vec3LeBytes(t.v1)
               [] j = 3 -> Vec3LeBytes(t.v2)
               [] OTHER -> <<0, 0>>

\* Calls lo..hi of w.write(..).unwrap() in order, each count dropped; a failed
\* call panics and no later call is made.  (The range is halved only to keep
\* the evaluation shallow: the calls are made one after the other.)
RECURSIVE WriteCalls(_, _, _, _, _)
WriteCalls(m, kind, st, lo, hi) ==
    IF lo > hi \/ ~st.ok THEN st
    ELSE IF lo = hi THEN SinkWrite(kind, st, WriteBuf(m, lo))
    ELSE LET mid == (lo + hi) \div 2
         IN  WriteCalls(m, kind, WriteCalls(m, kind, st, lo, mid), mid + 1, hi)

\* generate_stl_mesh(m, w) on an empty sink of the given kind.
GenerateStlMesh(m, kind) ==
    WriteCalls(m, kind, [bytes |-> <<>>, calls |-> 0, ok |-> TRUE], 1, NumWriteCalls(m))

(* ------------------------------------------------------------------ inputs *)

Args(w, t, c) == [mesh_width |-> w, mesh_thickness |-> t, contrast |-> c]

\* Values of --width, --thickness and --contrast that parse as f32: the
\* defaults, a small model, contrast at both ends of [0, 1] and one beyond it.
ArgSets ==
    { Args(F(100), F(10), Rat(1, 2)),
      Args(F(10), F(2), Rat(1, 2)),
      Args(F(100), F(10), Zero),
      Args(F(100), F(10), One),
      Args(F(3), F(2), Rat(3, 2)) }

Palette ==
    << <<0, 0, 0>>, <<255, 255, 255>>, <<128, 128, 128>>, <<255, 0, 0>> >>

\* <<cx, cy, c0>>: the pixel at raster (col, row) is palette entry
\* (cx * col + cy * row + c0) mod 4.
Patterns ==
    { <<0, 0, 0>>, <<0, 0, 1>>, <<0, 0, 2>>, <<1, 0, 0>>,
      <<0, 1, 0>>, <<1, 1, 0>>, <<1, 2, 3>>, <<0, 1, 1>> }

DecodedImage(w, h, pat) ==
    [w  |-> w,
     h  |-> h,
     px |-> [p \in (0..(w - 1)) \X (0..(h - 1)) |->
                Palette[((pat[1] * p[1] + pat[2] * p[2] + pat[3]) % Len(Palette)) + 1]]]

\* What image::open can return: every dimension is at least 1.
Images ==
    { DecodedImage(w, h, pat) : w \in 1..MaxDim, h \in 1..MaxDim, pat \in Patterns }

\* The sinks a created file can behave as: one that takes every byte offered,
\* one that takes at most 4 bytes per call, and one whose 83rd write fails.
Sinks ==
    { [cap |-> 12, errAt |-> 0], [cap |-> 4, errAt |-> 0], [cap |-> 12, errAt |-> 83] }

NoArgs == Args(Zero, Zero, Zero)

NoImage == [w |-> 0, h |-> 0, px |-> <<>>]

NoSink == [cap |-> 0, errAt |-> 0]

(* -------------------------------------------------------------------- main *)

Init ==
    /\ pc = "parse"
    /\ args = NoArgs
    /\ image = NoImage
    /\ thickness = <<>>
    /\ mesh = <<>>
    /\ x = 0
    /\ y = 0
    /\ fileCreated = FALSE
    /\ sinkKind = NoSink
    /\ output_file = <<>>

\* Program positions after a loop that may run zero times.
PcAfterBack ==
    IF Width - 1 > 0 THEN "left_right"
    ELSE IF Height - 1 > 0 THEN "top_bottom" ELSE "create"

PcAfterLeftRight == IF Height - 1 > 0 THEN "top_bottom" ELSE "create"

PcAfterThickness == IF Height - 1 > 0 /\ Width - 1 > 0 THEN "front" ELSE "back"

\* Variant: the output file is created as soon as the flags have parsed.
ParseArgs_CreatesFile ==
    /\ pc = "parse"
    /\ \E a \in ArgSets : args' = a
    /\ pc' = "load"
    /\ fileCreated' = TRUE
    /\ UNCHANGED <<image, thickness, mesh, x, y, sinkKind, output_file>>

\* The three numeric flags parse.
ParseArgs ==
    /\ pc = "parse"
    /\ \E a \in ArgSets : args' = a
    /\ pc' = "load"
    /\ UNCHANGED <<image, thickness, mesh, x, y, fileCreated, sinkKind, output_file>>

\* parse::<f32>().unwrap() panics.
ParseArgsFail ==
    /\ pc = "parse"
    /\ pc' = "panic_args"
    /\ UNCHANGED <<args, image, thickness, mesh, x, y, fileCreated, sinkKind, output_file>>

\* image::open(input_path) succeeds.
LoadImage ==
    /\ pc = "load"
    /\ \E im \in Images : image' = im
    /\ pc' = "thickness"
    /\ UNCHANGED <<args, thickness, mesh, x, y, fileCreated, sinkKind, output_file>>

\* image::open(input_path).unwrap() panics.
LoadImageFail ==
    /\ pc = "load"
    /\ pc' = "panic_image"
    /\ UNCHANGED <<args, image, thickness, mesh, x, y, fileCreated, sinkKind, output_file>>

\* image_to_mesh: the height field is collected, the mesh starts empty.
ComputeBrightness ==
    /\ pc = "thickness"
    /\ thickness' = ThicknessField
    /\ mesh' = <<>>
    /\ x' = 0
    /\ y' = 0
    /\ pc' = PcAfterThickness
    /\ UNCHANGED <<args, image, fileCreated, sinkKind, output_file>>

\* One iteration of the front-face loops (y outer, x inner).
FrontFace ==
    /\ pc = "front"
    /\ y < Height - 1
    /\ x < Width - 1
    /\ mesh' = FrontQuad(mesh, x, y)
    /\ IF x + 1 < Width - 1
         THEN x' = x + 1 /\ y' = y /\ pc' = pc
         ELSE IF y + 1 < Height - 1
                THEN x' = 0 /\ y' = y + 1 /\ pc' = pc
                ELSE x' = 0 /\ y' = 0 /\ pc' = "back"
    /\ UNCHANGED <<args, image, thickness, fileCreated, sinkKind, output_file>>

BackFace ==
    /\ pc = "back"
    /\ mesh' = BackQuad(mesh)
    /\ x' = 0
    /\ y' = 0
    /\ pc' = PcAfterBack
    /\ UNCHANGED <<args, image, thickness, fileCreated, sinkKind, output_file>>

\* One iteration of `for x in 0..width - 1`.
LeftRightFaces ==
    /\ pc = "left_right"
    /\ x < Width - 1
    /\ mesh' = LeftRightQuads(mesh, x)
    /\ IF x + 1 < Width - 1
         THEN x' = x + 1 /\ pc' = pc
         ELSE x' = 0 /\ pc' = PcAfterLeftRight
    /\ y' = 0
    /\ UNCHANGED <<args, image, thickness, fileCreated, sinkKind, output_file>>

\* One iteration of `for y in 0..height - 1`; after the last, the mesh is returned.
TopBottomFaces ==
    /\ pc = "top_bottom"
    /\ y < Height - 1
    /\ mesh' = TopBottomQuads(mesh, y)
    /\ IF y + 1 < Height - 1
         THEN y' = y + 1 /\ pc' = pc
         ELSE y' = 0 /\ pc' = "create"
    /\ x' = 0
    /\ UNCHANGED <<args, image, thickness, fileCreated, sinkKind, output_file>>

\* File::create(output_path) succeeds: the file exists and is empty.
CreateFile ==
    /\ pc = "create"
    /\ \E k \in Sinks : sinkKind' = k
    /\ fileCreated' = TRUE
    /\ output_file' = <<>>
    /\ pc' = "write"
    /\ UNCHANGED <<args, image, thickness, mesh, x, y>>

\* File::create(output_path).unwrap() panics.
CreateFileFail ==
    /\ pc = "create"
    /\ pc' = "panic_create"
    /\ UNCHANGED <<args, image, thickness, mesh, x, y, fileCreated, sinkKind, output_file>>

\* generate_stl_mesh(mesh, &mut output_file)
WriteStl ==
    /\ pc = "write"
    /\ LET st == GenerateStlMesh(mesh, sinkKind)
       IN  /\ output_file' = st.bytes
           /\ pc' = IF st.ok THEN "done" ELSE "panic_write"
    /\ UNCHANGED <<args, image, thickness, mesh, x, y, fileCreated, sinkKind>>

Next ==
    \/ ParseArgs
    \/ ParseArgsFail
    \/ LoadImage
    \/ LoadImageFail
    \/ ComputeBrightness
    \/ FrontFace
    \/ BackFace
    \/ LeftRightFaces
    \/ TopBottomFaces
    \/ CreateFile
    \/ CreateFileFail
    \/ WriteStl

Spec == Init /\ [][Next]_vars

(* ------------------------------------------------- vocabulary of the claims *)

\* a <= b and a < b on rationals.
RLe(a, b) == RSub(b, a)[1] >= 0

RLt(a, b) == RSub(b, a)[1] > 0

\* image_to_mesh has started and collected the height field.
FieldBuilt ==
    pc \in {"front", "back", "left_right", "top_bottom",
            "create", "write", "done", "panic_create", "panic_write"}

\* image_to_mesh has returned.
MeshReturned == pc \in {"create", "write", "done", "panic_create", "panic_write"}

NumFront == 2 * (Width - 1) * (Height - 1)

NumTriangles == NumFront + 2 + 4 * (Width - 1) + 4 * (Height - 1)

FieldPoints == (0..(Height - 1)) \X (0..(Width - 1))

PositiveHeights == \A p \in FieldPoints : RLt(Zero, Th(p[1], p[2]).z)

\* Triangle k (0 or 1) of the quad with corners q[1..4] and normal n.
QuadTriangle(q, n, k) ==
    IF k = 0 THEN Triangle(n, q[1], q[2], q[3]) ELSE Triangle(n, q[1], q[3], q[4])

(* ---------------------------------------------------------------- claim C1 *)

\* C1: for an image with W >= 2 and H >= 2 the returned mesh holds exactly
\* 2*(W-1)*(H-1) + 2 + 4*(W-1) + 4*(H-1) triangles: the mesh holds 2*(W-1)*(H-1)
\* when the front loops end, 2 more after the back cap, 4*(W-1) more after the
\* wall loop over columns and 4*(H-1) more after the wall loop over rows.
C1_TriangleCount ==
    (FieldBuilt /\ Width >= 2 /\ Height >= 2) =>
        /\ pc = "back" => Len(mesh) = 2 * (Width - 1) * (Height - 1)
        /\ (pc = "left_right" /\ x = 0) =>
              Len(mesh) = 2 * (Width - 1) * (Height - 1) + 2
        /\ (pc = "top_bottom" /\ y = 0) =>
              Len(mesh) = 2 * (Width - 1) * (Height - 1) + 2 + 4 * (Width - 1)
        /\ MeshReturned =>
              Len(mesh) = 2 * (Width - 1) * (Height - 1) + 2
                          + 4 * (Width - 1) + 4 * (Height - 1)

C1_Witness ==
    /\ pc = "done"
    /\ Width = 3
    /\ Height = 2
    /\ Len(mesh) = 18

(* ---------------------------------------------------------------- claim C7 *)

\* The triangle the claim places at position i (from 1) of the mesh.
C7_TriangleAt(i) ==
    IF i <= NumFront THEN
        LET cell == (i - 1) \div 2
            row  == cell \div (Width - 1)
            col  == cell % (Width - 1)
            q    == <<Th(row, col), Th(row, col + 1),
                      Th(row + 1, col + 1), Th(row + 1, col)>>
        IN  QuadTriangle(q, Normal(q[1], q[2], q[3]), (i - 1) % 2)
    ELSE IF i <= NumFront + 2 THEN
        LET maxX == Th(Height - 1, Width - 1).x
            maxY == Th(Height - 1, Width - 1).y
            q    == <<Vec3(Zero, Zero, Zero), Vec3(maxX, Zero, Zero),
                      Vec3(maxX, maxY, Zero), Vec3(Zero, maxY, Zero)>>
        IN  QuadTriangle(q, Vec3(Zero, Zero, F(-1)), i - NumFront - 1)
    ELSE IF i <= NumFront + 2 + 4 * (Width - 1) THEN
        LET k   == i - NumFront - 3
            col == k \div 4
            a   == <<Th(0, col), Th(0, col + 1),
                     OnBack(Th(0, col + 1)), OnBack(Th(0, col))>>
            b   == <<Th(Height - 1, col + 1), Th(Height - 1, col),
                     OnBack(Th(Height - 1, col)), OnBack(Th(Height - 1, col + 1))>>
        IN  IF k % 4 < 2 THEN QuadTriangle(a, Vec3(F(-1), Zero, Zero), k % 2)
            ELSE QuadTriangle(b, Vec3(One, Zero, Zero), k % 2)
    ELSE
        LET k   == i - NumFront - 3 - 4 * (Width - 1)
            row == k \div 4
            a   == <<Th(row, 0), Th(row + 1, 0),
                     OnBack(Th(row + 1, 0)), OnBack(Th(row, 0))>>
            b   == <<Th(row, Width - 1), Th(row + 1, Width - 1),
                     OnBack(Th(row + 1, Width - 1)), OnBack(Th(row, Width - 1))>>
        IN  IF k % 4 < 2 THEN QuadTriangle(a, Vec3(Zero, F(-1), Zero), k % 2)
            ELSE QuadTriangle(b, Vec3(Zero, One, Zero), k % 2)

C7_OrderInv ==
    /\ FieldBuilt => \A i \in 1..Len(mesh) : mesh[i] = C7_TriangleAt(i)
    /\ MeshReturned => Len(mesh) = NumTriangles
    /\ ~FieldBuilt => mesh = <<>>

C7_AppendOnly ==
    /\ Len(mesh') >= Len(mesh)
    /\ SubSeq(mesh', 1, Len(mesh)) = mesh

\* C7: the mesh is, at every moment, a prefix of one fixed sequence that depends
\* only on the input: the front triangles cell by cell in row-major order (the
\* triangles (v0,v1,v2), (v0,v2,v3) of a cell adjacent), the 2 back-cap
\* triangles, the 4*(W-1) triangles of the wall loop over columns by ascending
\* column, the 4*(H-1) triangles of the wall loop over rows by ascending row;
\* and every step only appends to the mesh.
C7_MeshOrder == [](C7_OrderInv) /\ [][C7_AppendOnly]_vars

C7_Witness ==
    /\ pc = "done"
    /\ Width = 3
    /\ Height = 3
    /\ Len(mesh) = 26
    /\ Th(0, 0).z # Th(2, 1).z

(* --------------------------------------------------------------- claim C10 *)

\* C10: the field point at (row, col) has z computed from raster pixel
\* (col, H - row - 1), and planar coordinates x_mm = col*meshWidth/W and
\* y_mm = row*meshWidth/W (stated as x_mm * W = col * meshWidth); the far corner
\* of the back cap has the planar coordinates of the field point (H-1, W-1).
C10_FieldMapping ==
    FieldBuilt =>
        /\ \A p \in FieldPoints :
              LET v   == Th(p[1], p[2])
                  pix == image.px[<<p[2], Height - p[1] - 1>>]
              IN  /\ RMul(v.x, F(Width)) = RMul(F(p[2]), args.mesh_width)
                  /\ RMul(v.y, F(Width)) = RMul(F(p[1]), args.mesh_width)
                  /\ v.z = BrightnessToMm(GetPixelBrightness(pix[1], pix[2], pix[3]))
        /\ MeshReturned =>
              /\ mesh[NumFront + 1].v2.x = Th(Height - 1, Width - 1).x
              /\ mesh[NumFront + 1].v2.y = Th(Height - 1, Width - 1).y
              /\ mesh[NumFront + 1].v2.z = Zero

C10_Witness ==
    /\ MeshReturned
    /\ Width = 2
    /\ Height = 3
    /\ image.px[<<0, 0>>] # image.px[<<0, 2>>]
    /\ Th(0, 0).z # Th(2, 0).z
    /\ Th(2, 1).x # Th(2, 1).y

(* ---------------------------------------------------------------- claim C8 *)

C8_DepthOf(v, pix) ==
    /\ args.contrast = Zero => v.z = args.mesh_thickness
    /\ (args.contrast = One /\ pix = <<255, 255, 255>>) => v.z = Zero
    /\ (args.contrast = One /\ pix = <<0, 0, 0>>) => v.z = args.mesh_thickness
    /\ (RLe(Zero, args.contrast) /\ RLe(args.contrast, One)
          /\ RLe(Zero, args.mesh_thickness)) =>
            (RLe(Zero, v.z) /\ RLe(v.z, args.mesh_thickness))

\* C8: at contrast 0 every front-face vertex has z = thickness; at contrast 1 a
\* white pixel gets z = 0 and a black pixel z = thickness; for a contrast in
\* [0, 1] and a thickness >= 0 every front-face vertex has 0 <= z <= thickness.
C8_DepthRange ==
    FieldBuilt =>
        /\ \A p \in FieldPoints :
              C8_DepthOf(Th(p[1], p[2]), image.px[<<p[2], Height - p[1] - 1>>])
        /\ \A i \in 1..Min(Len(mesh), NumFront) :
              \A v \in {mesh[i].v0, mesh[i].v1, mesh[i].v2} :
                 \E p \in FieldPoints :
                    /\ v = Th(p[1], p[2])
                    /\ C8_DepthOf(v, image.px[<<p[2], Height - p[1] - 1>>])

C8_Witness ==
    /\ MeshReturned
    /\ args.contrast = One
    /\ Width >= 2
    /\ Height >= 2
    /\ \E p \in FieldPoints :
          /\ image.px[<<p[2], Height - p[1] - 1>>] = <<255, 255, 255>>
          /\ Th(p[1], p[2]).z = Zero
    /\ \E p \in FieldPoints :
          /\ image.px[<<p[2], Height - p[1] - 1>>] = <<0, 0, 0>>
          /\ Th(p[1], p[2]).z = args.mesh_thickness

(* ---------------------------------------------------------------- claim C9 *)

\* C9: the output file exists, or holds bytes, only when the flags have parsed,
\* the image is decoded and image_to_mesh has returned the complete mesh; a run
\* that fails to parse a flag or to decode the image has built no height field
\* and no mesh, created no file and written no byte.
C9_OutputAfterMesh ==
    /\ (fileCreated \/ output_file # <<>>) =>
          /\ args \in ArgSets
          /\ image \in Images
          /\ pc \in {"write", "done", "panic_write"}
          /\ Len(mesh) = NumTriangles
    /\ pc = "panic_args" =>
          /\ image = NoImage
          /\ thickness = <<>>
          /\ mesh = <<>>
          /\ ~fileCreated
          /\ output_file = <<>>
    /\ pc = "panic_image" =>
          /\ image = NoImage
          /\ thickness = <<>>
          /\ mesh = <<>>
          /\ ~fileCreated
          /\ output_file = <<>>

C9_Witness ==
    /\ pc = "done"
    /\ fileCreated
    /\ Len(output_file) > 84
    /\ Width >= 2
    /\ Height >= 2

(* ---------------------------------------------------------------- claim C2 *)

DirectedEdges(t) == << <<t.v0, t.v1>>, <<t.v1, t.v2>>, <<t.v2, t.v0>> >>

EdgeSlots == (1..Len(mesh)) \X (1..3)

\* In how many triangle sides of the mesh the directed edge e appears.
EdgeCount(e) ==
    Cardinality({s \in EdgeSlots : DirectedEdges(mesh[s[1]])[s[2]] = e})

Watertight ==
    \A s \in EdgeSlots :
        LET e == DirectedEdges(mesh[s[1]])[s[2]]
        IN  /\ EdgeCount(e) = 1
            /\ EdgeCount(<<e[2], e[1]>>) = 1

\* C2: for W >= 2, H >= 2 and positive heights the returned mesh is watertight:
\* every directed edge of a triangle appears in exactly one triangle and its
\* reverse in exactly one other.
C2_Watertight ==
    (MeshReturned /\ Width >= 2 /\ Height >= 2 /\ PositiveHeights) => Watertight

(* ---------------------------------------------------------------- claim C3 *)

\* The 50-byte record of triangle t.
C3_Record(t) ==
    Vec3LeBytes(t.normal) \o Vec3LeBytes(t.v0) \o Vec3LeBytes(t.v1)
        \o Vec3LeBytes(t.v2) \o <<0, 0>>

\* C3: when generate_stl_mesh returns (every write call having succeeded), the
\* sink holds exactly 84 + 50*n bytes: 80 zero bytes, the little-endian count n,
\* then the 50-byte record of each triangle in mesh order.
C3_StlLayout ==
    pc = "done" =>
        /\ Len(output_file) = 84 + 50 * Len(mesh)
        /\ \A i \in 1..80 : output_file[i] = 0
        /\ SubSeq(output_file, 81, 84) = U32LeBytes(Len(mesh))
        /\ \A k \in 1..Len(mesh) :
              SubSeq(output_file, 84 + 50 * (k - 1) + 1, 84 + 50 * k) = C3_Record(mesh[k])

(* ---------------------------------------------------------------- claim C4 *)

\* C4: a run on an image with width or height below 2 builds no mesh, creates
\* no output and never completes.
C4_SmallImageRejected ==
    (image # NoImage /\ (Width < 2 \/ Height < 2)) =>
        /\ mesh = <<>>
        /\ ~fileCreated
        /\ output_file = <<>>
        /\ pc # "done"

(* ---------------------------------------------------------------- claim C5 *)

WallIndices == (NumFront + 3)..Len(mesh)

AllVertices(t) == {t.v0, t.v1, t.v2}

\* C5: every wall triangle lies on the boundary its fixed normal names: normal
\* (-1,0,0) on x = 0, (+1,0,0) on the last column's x, (0,-1,0) on y = 0 and
\* (0,1,0) on the last row's y.
C5_WallNormalOnBoundary ==
    (MeshReturned /\ Width >= 2 /\ Height >= 2) =>
        \A i \in WallIndices :
            LET t == mesh[i]
            IN  /\ t.normal = Vec3(F(-1), Zero, Zero) =>
                      \A v \in AllVertices(t) : v.x = Zero
                /\ t.normal = Vec3(One, Zero, Zero) =>
                      \A v \in AllVertices(t) : v.x = Th(0, Width - 1).x
                /\ t.normal = Vec3(Zero, F(-1), Zero) =>
                      \A v \in AllVertices(t) : v.y = Zero
                /\ t.normal = Vec3(Zero, One, Zero) =>
                      \A v \in AllVertices(t) : v.y = Th(Height - 1, 0).y

(* ---------------------------------------------------------------- claim C6 *)

Dot(a, b) == RAdd(RAdd(RMul(a.x, b.x), RMul(a.y, b.y)), RMul(a.z, b.z))

Cross(a, b) ==
    Vec3(RSub(RMul(a.y, b.z), RMul(a.z, b.y)),
         RSub(RMul(a.z, b.x), RMul(a.x, b.z)),
         RSub(RMul(a.x, b.y), RMul(a.y, b.x)))

\* a is a positive multiple of b.
SameDirection(a, b) ==
    /\ Cross(a, b) = Vec3(Zero, Zero, Zero)
    /\ RLt(Zero, Dot(a, b))

\* The centre of the footprint of the solid, at z = 0.
Centre ==
    Vec3(RDiv(Th(Height - 1, Width - 1).x, F(2)),
         RDiv(Th(Height - 1, Width - 1).y, F(2)), Zero)

\* The fixed normal n of a wall triangle at v0 points away from the solid.
Outward(n, v0) ==
    RLt(Zero, Dot(n, Vec3(RSub(v0.x, Centre.x), RSub(v0.y, Centre.y), Zero)))

\* C6: over positive heights, the winding normal (v1-v0) x (v2-v0) of every wall
\* triangle points the way of its declared normal, which points out of the solid.
C6_WallWinding ==
    (MeshReturned /\ Width >= 2 /\ Height >= 2 /\ PositiveHeights) =>
        \A i \in WallIndices :
            LET t == mesh[i]
            IN  /\ SameDirection(Normal(t.v0, t.v1, t.v2), t.normal)
                /\ Outward(t.normal, t.v0)

====
